---- MODULE Spec2Model ----
(* Model of server/index.js: the scripted form-filling conversation.        *)
(* One global schema (jsonSchema), one global message log (messages) and    *)
(* the async function getResponse, which sends five chat-completion         *)
(* requests one after the other.  JavaScript runs the code between two      *)
(* awaits without interruption, so each action below is one such stretch:   *)
(* the call up to the first await, the continuation after each await, and   *)
(* the catch block.                                                         *)
EXTENDS Integers, Sequences, FiniteSets, TLC

VARIABLES jsonSchema, messages, appendedBy, pc, pending, sent, console, calls,
          oracle

vars == <<jsonSchema, messages, appendedBy, pc, pending, sent, console, calls,
          oracle>>

(* ---- bounds of the environment ---- *)

\* invocations of getResponse that may overlap
Procs == {1, 2}

\* contents the model may return for a request (an untrusted oracle):
\* a question, a filled form with the date as typed, a filled form with
\* the date normalised
Replies == {"question", "form_raw", "form_iso"}

\* ways a request may reject
Errors == {"timeout", "api_error"}

(* ---- the schema, index.js lines 7-87 ---- *)

SchemaFields ==
  << [id |-> "field_01", label |-> "Full Name", type |-> "text",
      options |-> <<>>, value |-> "null", required |-> TRUE, tabOrder |-> 1],
     [id |-> "field_02", label |-> "Date of Birth", type |-> "date",
      options |-> <<>>, value |-> "null", required |-> TRUE, tabOrder |-> 2],
     [id |-> "field_03", label |-> "Gender", type |-> "radio",
      options |-> <<"Male", "Female", "Other">>, value |-> "null",
      required |-> FALSE, tabOrder |-> 3] >>

SchemaInit ==
  [formTitle |-> "Medical Intake Form", formId |-> "form_001",
   fields |-> SchemaFields]

(* ---- the message log, index.js lines 88-92 ---- *)

\* the instruction text with JSON.stringify(jsonSchema) spliced in
InstructionContent == "instructions+schema:form_001"

Msg(role, content) == [role |-> role, content |-> content]

MessagesInit == << Msg("user", InstructionContent) >>

\* the three scripted utterances, in source order (lines 106, 115, 124)
NameUtterance == "Youdahe Asfaw"
DateUtterance == "04/29/2006"
GenderUtterance == "Male"

(* ---- requests: openai.chat.completions.create({model, messages}) ---- *)

\* The body of a request is the log as it is when the request is made.
\* by and site name the invocation and the await the request belongs to;
\* owners records, entry by entry, which invocation appended each message.
Request(p, site, log, owners) ==
  [by |-> p, site |-> site, model |-> "gpt-4", messages |-> log,
   owners |-> owners]

\* the request invocation p is waiting for at the await named site
Awaited(p, site) == {q \in pending : q.by = p /\ q.site = site}

\* console.log(`BOT:${text}`), console.log(text), console.error(msg, error)
BotLine(text) == [stream |-> "log", prefix |-> "BOT:", text |-> text]
PlainLine(text) == [stream |-> "log", prefix |-> "", text |-> text]
ErrorLine(e) ==
  [stream |-> "error", prefix |-> "Error getting response:", text |-> e]

\* messages.push(assistant reply); messages.push(user utterance)
PushTurn(log, reply, utterance) ==
  Append(Append(log, Msg("assistant", reply)), Msg("user", utterance))

OwnTurn(owners, p) == Append(Append(owners, p), p)

(* ---- getResponse, index.js lines 95-133 ---- *)

\* Call without the first await: the name is pushed and the second request
\* made while the first is still in flight
Call_NoAwait(p) ==
  /\ p \in calls
  /\ pc[p] = "idle"
  /\ pc' = [pc EXCEPT ![p] = "await107"]
  /\ messages' = Append(messages, Msg("user", NameUtterance))
  /\ appendedBy' = Append(appendedBy, p)
  /\ pending' = pending \cup {Request(p, "await97", messages, appendedBy),
                              Request(p, "await107", messages', appendedBy')}
  /\ sent' = Append(Append(sent, Request(p, "await97", messages, appendedBy)),
                    Request(p, "await107", messages', appendedBy'))
  /\ UNCHANGED <<jsonSchema, console, calls, oracle>>

\* lines 95-100: enter the try block and make the first request
Call(p) ==
  /\ p \in calls
  /\ pc[p] = "idle"
  /\ pc' = [pc EXCEPT ![p] = "await97"]
  /\ pending' = pending \cup {Request(p, "await97", messages, appendedBy)}
  /\ sent' = Append(sent, Request(p, "await97", messages, appendedBy))
  /\ UNCHANGED <<jsonSchema, messages, appendedBy, console, calls, oracle>>

\* OnRepy answering the first prompt with the date instead of the name
OnRepy_DateFirst(p, repy) ==
  /\ pc[p] = "await97"
  /\ Awaited(p, "await97") # {}
  /\ console' = Append(console, BotLine(repy))
  /\ messages' = PushTurn(messages, repy, DateUtterance)
  /\ appendedBy' = OwnTurn(appendedBy, p)
  /\ pending' = (pending \ Awaited(p, "await97"))
                  \cup {Request(p, "await107", messages', appendedBy')}
  /\ sent' = Append(sent, Request(p, "await107", messages', appendedBy'))
  /\ pc' = [pc EXCEPT ![p] = "await107"]
  /\ UNCHANGED <<jsonSchema, calls, oracle>>

\* lines 103-110: log the first reply, push it and the name, ask again
OnRepy(p, repy) ==
  /\ pc[p] = "await97"
  /\ Awaited(p, "await97") # {}
  /\ console' = Append(console, BotLine(repy))
  /\ messages' = PushTurn(messages, repy, NameUtterance)
  /\ appendedBy' = OwnTurn(appendedBy, p)
  /\ pending' = (pending \ Awaited(p, "await97"))
                  \cup {Request(p, "await107", messages', appendedBy')}
  /\ sent' = Append(sent, Request(p, "await107", messages', appendedBy'))
  /\ pc' = [pc EXCEPT ![p] = "await107"]
  /\ UNCHANGED <<jsonSchema, calls, oracle>>

\* OnDOBreply also storing the name in the schema's first field
OnDOBreply_WritesSchema(p, DOBreply) ==
  /\ pc[p] = "await107"
  /\ Awaited(p, "await107") # {}
  /\ console' = Append(console, BotLine(DOBreply))
  /\ messages' = PushTurn(messages, DOBreply, DateUtterance)
  /\ appendedBy' = OwnTurn(appendedBy, p)
  /\ pending' = (pending \ Awaited(p, "await107"))
                  \cup {Request(p, "await116", messages', appendedBy')}
  /\ sent' = Append(sent, Request(p, "await116", messages', appendedBy'))
  /\ pc' = [pc EXCEPT ![p] = "await116"]
  /\ jsonSchema' = [jsonSchema EXCEPT !.fields[1].value = NameUtterance]
  /\ UNCHANGED <<calls, oracle>>

\* lines 112-116: log the second reply, push it and the date, ask again
OnDOBreply(p, DOBreply) ==
  /\ pc[p] = "await107"
  /\ Awaited(p, "await107") # {}
  /\ console' = Append(console, BotLine(DOBreply))
  /\ messages' = PushTurn(messages, DOBreply, DateUtterance)
  /\ appendedBy' = OwnTurn(appendedBy, p)
  /\ pending' = (pending \ Awaited(p, "await107"))
                  \cup {Request(p, "await116", messages', appendedBy')}
  /\ sent' = Append(sent, Request(p, "await116", messages', appendedBy'))
  /\ pc' = [pc EXCEPT ![p] = "await116"]
  /\ UNCHANGED <<jsonSchema, calls, oracle>>

\* lines 117-119: log the third reply (not pushed) and ask again
OnDOB(p, DOB) ==
  /\ pc[p] = "await116"
  /\ Awaited(p, "await116") # {}
  /\ console' = Append(console, PlainLine(DOB))
  /\ pending' = (pending \ Awaited(p, "await116"))
                  \cup {Request(p, "await119", messages, appendedBy)}
  /\ sent' = Append(sent, Request(p, "await119", messages, appendedBy))
  /\ pc' = [pc EXCEPT ![p] = "await119"]
  /\ UNCHANGED <<jsonSchema, messages, appendedBy, calls, oracle>>

\* OnGender pushing the utterance without the reply before it
OnGender_UserOnly(p, GenderReply) ==
  /\ pc[p] = "await119"
  /\ Awaited(p, "await119") # {}
  /\ console' = Append(console, BotLine(GenderReply))
  /\ messages' = Append(messages, Msg("user", GenderUtterance))
  /\ appendedBy' = Append(appendedBy, p)
  /\ pending' = (pending \ Awaited(p, "await119"))
                  \cup {Request(p, "await125", messages', appendedBy')}
  /\ sent' = Append(sent, Request(p, "await125", messages', appendedBy'))
  /\ pc' = [pc EXCEPT ![p] = "await125"]
  /\ UNCHANGED <<jsonSchema, calls, oracle>>

\* lines 121-125: log the fourth reply, push it and the gender, ask again
OnGender(p, GenderReply) ==
  /\ pc[p] = "await119"
  /\ Awaited(p, "await119") # {}
  /\ console' = Append(console, BotLine(GenderReply))
  /\ messages' = PushTurn(messages, GenderReply, GenderUtterance)
  /\ appendedBy' = OwnTurn(appendedBy, p)
  /\ pending' = (pending \ Awaited(p, "await119"))
                  \cup {Request(p, "await125", messages', appendedBy')}
  /\ sent' = Append(sent, Request(p, "await125", messages', appendedBy'))
  /\ pc' = [pc EXCEPT ![p] = "await125"]
  /\ UNCHANGED <<jsonSchema, calls, oracle>>

\* lines 126-128: log the fifth reply and leave the try block
OnGenderResponse(p, genderResponse) ==
  /\ pc[p] = "await125"
  /\ Awaited(p, "await125") # {}
  /\ console' = Append(console, PlainLine(genderResponse))
  /\ pending' = pending \ Awaited(p, "await125")
  /\ pc' = [pc EXCEPT ![p] = "returned"]
  /\ UNCHANGED <<jsonSchema, messages, appendedBy, sent, calls, oracle>>

\* Catch resetting the log to the instruction message
Catch_Rollback(p, error) ==
  /\ Awaited(p, pc[p]) # {}
  /\ console' = Append(console, ErrorLine(error))
  /\ pending' = pending \ Awaited(p, pc[p])
  /\ pc' = [pc EXCEPT ![p] = "caught"]
  /\ messages' = SubSeq(messages, 1, 1)
  /\ appendedBy' = SubSeq(appendedBy, 1, 1)
  /\ UNCHANGED <<jsonSchema, sent, calls, oracle>>

\* lines 130-132: the awaited request rejects; log the error and return
Catch(p, error) ==
  /\ Awaited(p, pc[p]) # {}
  /\ console' = Append(console, ErrorLine(error))
  /\ pending' = pending \ Awaited(p, pc[p])
  /\ pc' = [pc EXCEPT ![p] = "caught"]
  /\ UNCHANGED <<jsonSchema, messages, appendedBy, sent, calls, oracle>>

(* ---- specifications ---- *)

\* line 136: one invocation
Init ==
  /\ jsonSchema = SchemaInit
  /\ messages = MessagesInit
  /\ appendedBy = <<0>>
  /\ pc = [p \in Procs |-> "idle"]
  /\ pending = {}
  /\ sent = <<>>
  /\ console = <<>>
  /\ calls = {1}
  /\ oracle = Replies

\* Two overlapping invocations in the same process.  The replies are fixed to
\* one content here: what matters when invocations overlap is who appended a
\* message, and both invocations push the same utterances anyway.
InitConcurrent ==
  /\ jsonSchema = SchemaInit
  /\ messages = MessagesInit
  /\ appendedBy = <<0>>
  /\ pc = [p \in Procs |-> "idle"]
  /\ pending = {}
  /\ sent = <<>>
  /\ console = <<>>
  /\ calls = Procs
  /\ oracle = {"question"}

Next ==
  \E p \in Procs :
    \/ Call(p)
    \/ \E r \in oracle : OnRepy(p, r)
    \/ \E r \in oracle : OnDOBreply(p, r)
    \/ \E r \in oracle : OnDOB(p, r)
    \/ \E r \in oracle : OnGender(p, r)
    \/ \E r \in oracle : OnGenderResponse(p, r)
    \/ \E e \in Errors : Catch(p, e)

Spec == Init /\ [][Next]_vars

SpecConcurrent == InitConcurrent /\ [][Next]_vars

(* ---- helpers for the properties ---- *)

Last(q) == q[Len(q)]

IsPrefix(a, b) == Len(a) <= Len(b) /\ SubSeq(b, 1, Len(a)) = a

\* positions of the user's utterances in a log (the first entry is the
\* instruction message, not an utterance)
UtterancePositions(log) == {i \in 2..Len(log) : log[i].role = "user"}

UserCount(log) == Cardinality(UtterancePositions(log))

\* the field an utterance answers: the name is the text field, the
\* MM/DD/YYYY date the date field, "Male" an option of the radio field
AnsweredField(u) ==
  CASE u = NameUtterance -> 1
    [] u = DateUtterance -> 2
    [] u = GenderUtterance -> 3

TabOrderOf(u) == jsonSchema.fields[AnsweredField(u)].tabOrder

\* the form a reply contains, if it contains one
NoForm == [name |-> "", dob |-> ""]

FilledForm(reply) ==
  CASE reply = "form_raw" -> [name |-> NameUtterance, dob |-> DateUtterance]
    [] reply = "form_iso" -> [name |-> NameUtterance, dob |-> "2006-04-29"]
    [] OTHER -> NoForm

(* ---- C1 ---- *)

\* C1: during a run at most one request is in flight, and the log grows
\* only in a step that receives the reply to the request in flight: the
\* step takes that request out of flight, logs the reply and appends it
\* as the assistant message ahead of the next utterance.
C1_OneInFlight ==
  \A p \in Procs : Cardinality({q \in pending : q.by = p}) <= 1

C1_AdvanceOnReply ==
  Len(messages') > Len(messages) =>
    /\ \E q \in pending : q \notin pending'
    /\ Len(console') = Len(console) + 1
    /\ messages'[Len(messages) + 1] =
         Msg("assistant", Last(console').text)
    /\ Len(messages') = Len(messages) + 2
    /\ Last(messages').role = "user"

C1_Sequential == [](C1_OneInFlight) /\ [][C1_AdvanceOnReply]_vars

C1_Witness ==
  /\ pc[1] = "await107"
  /\ Len(messages) = 3
  /\ Cardinality(pending) = 1

(* ---- C2 ---- *)

\* C2: the utterances in the log are in non-decreasing tabOrder of the
\* fields they answer, and an utterance for a field comes only after an
\* utterance for every required field with a lower tabOrder.
C2_TabOrder ==
  \A i \in UtterancePositions(messages) :
    /\ \A j \in UtterancePositions(messages) :
         i < j => TabOrderOf(messages[i].content)
                    <= TabOrderOf(messages[j].content)
    /\ \A f \in 1..Len(jsonSchema.fields) :
         (/\ jsonSchema.fields[f].required
          /\ jsonSchema.fields[f].tabOrder < TabOrderOf(messages[i].content))
         => \E j \in UtterancePositions(messages) :
              j < i /\ AnsweredField(messages[j].content) = f

C2_Witness ==
  /\ pc[1] = "await125"
  /\ UserCount(messages) = 3
  /\ Last(messages).content = GenderUtterance

(* ---- C3 ---- *)

\* C3: every request after the first carries exactly one more user
\* utterance than the request before it.
C3_OneUtterancePerPrompt ==
  \A i \in 2..Len(sent) :
    UserCount(sent[i].messages) = UserCount(sent[i - 1].messages) + 1

(* ---- C4 ---- *)

\* C4: a failed request does not end the run: once an error has been
\* logged, a further request of the same invocation is in flight.
C4_RePromptAfterFailure ==
  \A p \in calls :
    pc[p] = "caught" => \E q \in pending : q.by = p

(* ---- C5 ---- *)

\* C5: every request carries, after the instruction message, only
\* messages appended by the invocation that makes the request.
C5_OwnHistoryOnly ==
  \A n \in 1..Len(sent) :
    \A i \in 2..Len(sent[n].messages) : sent[n].owners[i] = sent[n].by

(* ---- C6 ---- *)

\* C6: once the name and the date have been processed (the reply to the
\* request made after the date has been logged), that reply is the
\* completed document with the name and the normalised date.
C6_ScenarioA ==
  \A p \in calls :
    pc[p] \in {"await119", "await125", "returned"} =>
      FilledForm(console[3].text) =
        [name |-> "Youdahe Asfaw", dob |-> "2006-04-29"]

(* ---- C7 ---- *)

\* C7: the schema is the same in every state of a run, ended or not, as
\* it was at construction.
C7_SchemaReadOnly == jsonSchema = SchemaInit

C7_Witness ==
  /\ pc[1] = "returned"
  /\ Len(messages) = 7
  /\ \A f \in 1..Len(jsonSchema.fields) : jsonSchema.fields[f].value = "null"

(* ---- C8 ---- *)

\* C8: no two requests carry the same log, and the k-th reply received
\* is in the log of every later request as its k-th assistant message.
C8_CompleteHistory ==
  \A j \in 1..Len(sent) :
    \A k \in 1..(j - 1) :
      /\ sent[k].messages # sent[j].messages
      /\ Len(sent[j].messages) >= 2 * k
      /\ sent[j].messages[2 * k] = Msg("assistant", console[k].text)

(* ---- C9 ---- *)

\* C9: after a failed request the run is over: the error is the last
\* line logged, nothing is in flight, the log is exactly the log the
\* failed request carried, and no step is possible.
C9_FailureEndsRun ==
  pc[1] = "caught" =>
    /\ pending = {}
    /\ Last(console).stream = "error"
    /\ \A i \in 1..(Len(console) - 1) : console[i].stream = "log"
    /\ messages = Last(sent).messages
    /\ ~ ENABLED Next

C9_Witness ==
  /\ pc[1] = "caught"
  /\ Len(sent) = 4
  /\ Len(messages) = 5

(* ---- C10 ---- *)

\* C10: the log starts with the instruction message, its roles alternate
\* user, assistant, user, ..., every request is made with a log that
\* ends in a user message, and a step only ever appends to the log.
C10_WellFormed ==
  /\ messages[1] = Msg("user", InstructionContent)
  /\ \A i \in 1..Len(messages) :
       messages[i].role = IF i % 2 = 1 THEN "user" ELSE "assistant"
  /\ \A n \in 1..Len(sent) : Last(sent[n].messages).role = "user"

C10_AppendOnly == IsPrefix(messages, messages')

C10_Log == [](C10_WellFormed) /\ [][C10_AppendOnly]_vars

C10_Witness ==
  /\ pc[1] = "await125"
  /\ Len(messages) = 7
  /\ Len(sent) = 5
====
